---- MODULE Spec2Model ----
(***************************************************************************)
(* A model of supersetup: the Repo reconciliation engine of                *)
(* src/supersetup/repo.py (ensure / check / pull / upgrade, driven command *)
(* by command) and the RepoRegistry.apply fan-out of                       *)
(* src/supersetup/__main__.py.                                             *)
(*                                                                         *)
(* The engine is modelled at the granularity of Repo._cmd: an action runs  *)
(* the Python code from one external command to the next.  While pc is not *)
(* "idle" the command named by pc has been appended to the command log and *)
(* is executing; CmdReturns / CmdFails deliver its exit status (zero /     *)
(* nonzero) and run the code that follows it.                              *)
(***************************************************************************)
EXTENDS Integers, Sequences, FiniteSets, TLC

VARIABLES
    desc,          \* the Repo descriptor: remote, url, remotes, branch, verbose
    upstream,      \* what the server behind the declared urls holds
    wc,            \* the local working copy at repo.dpath
    pc,            \* "idle", or the command that is executing
    loc,           \* the local variables of the running method
    logged_cmds,   \* repo._logged_cmds
    logged_lines,  \* repo._logged_lines
    result,        \* how the last call ended: "ok" or the exception raised
    pre,           \* wc when the last call started
    mark,          \* Len(logged_cmds) when the last call started
    prev,          \* the call before the last one
    nOps,          \* number of calls made so far
    funcname,      \* RepoRegistry.apply: the method applied to each repo
    num_workers,   \* RepoRegistry.apply: 0, or the size of the process pool
    tasks,         \* per repo: the method call on it and the Repo it runs on
    processed,     \* processed_repos
    apply,         \* where apply is: "loop", "unwinding", "returned", "raised"
    printed,       \* what apply has printed of the logs
    issued,        \* the repos of the commands issued, in order of issue
    call           \* the last call of a function that runs no command

engineVars == <<wc, pc, loc, logged_cmds, logged_lines, result, pre, mark,
                prev, nOps>>

batchVars == <<funcname, num_workers, tasks, processed, apply, printed, issued>>

vars == <<desc, upstream, engineVars, batchVars, call>>

-----------------------------------------------------------------------------
(* Bounds and vocabulary *)

MaxOps == 2

RemoteNames == {"origin", "mirror"}
BranchNames == {"master", "dev/1.2", "dev/1.10"}
Commits     == {"c1", "c2"}

\* the commit a tag named desc.branch points at, wherever such a tag exists
TagCommit == "c1"

\* the url declared for each remote name; "uX" is any other url
UrlOf == [r \in RemoteNames |-> IF r = "origin" THEN "uO" ELSE "uM"]
Urls  == {"uO", "uM", "uX"}

None == "None"

\* no function has been called
NoCall == [fn |-> None]

\* the commands the engine issues, as (argv, cwd) pairs
Cmd(argv, cwd) == [argv |-> argv, cwd |-> cwd]

-----------------------------------------------------------------------------
(* The git collaborator: when a command can exit 0 and what it then does   *)
(* to the working copy.  The engine reads the working copy through         *)
(* gitpython (repo.pygit) and changes it only through these commands.      *)

Absent  == "absent"   \* track[b]: there is no local branch b
NoTrack == "none"     \* track[b]: branch b exists and has no upstream

\* the branches and the tag (named desc.branch) the server at url u holds
ServerAt(u) == IF u = "uX" THEN [branches |-> {}, tag |-> FALSE] ELSE upstream

Detached(w) == w.head \in Commits

\* gitpython: repo.pygit.remotes[name] raises IndexError unless registered
HasRemote(w, r) == r \in w.reg

\* gitpython: remote.exists() -- the remote's config section has a url
RemoteExists(w, r) == r \in w.reg /\ w.urls[r] # {}

\* git clone --recursive -b <branch> <url> <dpath>
CanClone(w) ==
    /\ ~w.exists
    /\ (desc.branch \in ServerAt(desc.url).branches \/ ServerAt(desc.url).tag)

GitClone(w) ==
    LET srv == ServerAt(desc.url)
        onBranch == desc.branch \in srv.branches
    IN  [exists |-> TRUE,
         dirty  |-> FALSE,
         reg    |-> {"origin"},
         urls   |-> [r \in RemoteNames |-> IF r = "origin" THEN {desc.url} ELSE {}],
         refs   |-> [r \in RemoteNames |-> IF r = "origin" THEN srv.branches ELSE {}],
         head   |-> IF onBranch THEN desc.branch ELSE TagCommit,
         track  |-> [b \in BranchNames |->
                        IF onBranch /\ b = desc.branch THEN "origin" ELSE Absent],
         tag    |-> srv.tag]

\* git remote add <name> <url>
CanRemoteAdd(w, r) == r \notin w.reg

GitRemoteAdd(w, r, u) ==
    [w EXCEPT !.reg = @ \cup {r}, !.urls[r] = {u}, !.refs[r] = {}]

\* git remote set-url <name> <url>
CanSetUrl(w, r) == r \in w.reg

GitSetUrl(w, r, u) == [w EXCEPT !.urls[r] = {u}]

\* git fetch <name>: remote branches and the tags that come with them
CanFetch(w, r) == RemoteExists(w, r)

GitFetch(w, r) ==
    LET srv == ServerAt(CHOOSE u \in w.urls[r] : TRUE)
    IN  [w EXCEPT !.refs[r] = @ \cup srv.branches,
                  !.tag = @ \/ srv.tag]

\* the registered remotes that know a remote branch named b
RemotesWith(w, b) == {r \in w.reg : b \in w.refs[r]}

\* git checkout <b>: a local branch, else a tag, else the one remote branch
\* of that name (git then creates the local branch tracking it)
CanCheckout(w, b) ==
    \/ w.track[b] # Absent
    \/ (b = desc.branch /\ w.tag)
    \/ Cardinality(RemotesWith(w, b)) = 1

GitCheckout(w, b) ==
    IF w.track[b] # Absent THEN [w EXCEPT !.head = b]
    ELSE IF b = desc.branch /\ w.tag THEN [w EXCEPT !.head = TagCommit]
    ELSE [w EXCEPT !.head = b,
                   !.track[b] = CHOOSE r \in RemotesWith(w, b) : TRUE]

\* git checkout -b <b> <r>/<b>
CanCheckoutNew(w, b, r) == w.track[b] = Absent /\ r \in w.reg /\ b \in w.refs[r]

GitCheckoutNew(w, b, r) == [w EXCEPT !.head = b, !.track[b] = r]

\* git branch --set-upstream-to=<r>/<b> <b>
CanSetUpstream(w, b, r) == w.track[b] # Absent /\ r \in w.reg /\ b \in w.refs[r]

GitSetUpstream(w, b, r) == [w EXCEPT !.track[b] = r]

\* git pull: fetch the upstream of the checked-out branch and merge it
CanPull(w) ==
    /\ ~Detached(w)
    /\ w.track[w.head] \in RemoteNames
    /\ RemoteExists(w, w.track[w.head])

GitPull(w) == GitFetch(w, w.track[w.head])

-----------------------------------------------------------------------------
(* The running method: a configuration c holds the working copy, the       *)
(* method's locals, the two logs, the command that executes next (pc) and  *)
(* the outcome.  Each operator below is a stretch of Python that runs       *)
(* without an external command; it ends by issuing one (Run), returning     *)
(* (Return) or raising (Raise).                                             *)

\* Repo.debug / Repo.info: append to repo._logged_lines
Debug(c, msg) == [c EXCEPT !.lines = Append(@, <<"DEBUG", msg>>)]

Info(c, msg) == [c EXCEPT !.lines = Append(@, <<"INFO", msg>>)]

Return(c) == [c EXCEPT !.pc = "idle", !.result = "ok"]

Raise(c, exc) == [c EXCEPT !.pc = "idle", !.result = exc]

\* a _cmd that executes the command without logging it first
RunUnlogged(c, argv, cwd, at) == [Debug(c, "Run") EXCEPT !.pc = at]

\* Repo._cmd up to the call of ub.cmd: the command is logged, then executed
Run(c, argv, cwd, at) ==
    [Debug([c EXCEPT !.cmds = Append(@, Cmd(argv, cwd))], "Run") EXCEPT !.pc = at]

\* what a command has written, as <<stdout is non-blank, stderr is
\* non-blank>>: a command that exits 0 reports on stdout, a command that
\* exits nonzero explains itself on stderr
Outputs(ok) == IF ok THEN {<<TRUE, FALSE>>} ELSE {<<FALSE, TRUE>>}

\* Repo._cmd after ub.cmd came back: when verbose, what the command wrote
\* to stdout (out) and to stderr (err) is logged
CmdLogged(c, out, err) ==
    LET c1 == IF c.loc.verbose > 0 /\ out THEN Info(c, "stdout") ELSE c
    IN  IF c.loc.verbose > 0 /\ err THEN Debug(c1, "stderr") ELSE c1

\* a dirty check that never raises
AssertCleanNever(w) == FALSE

\* Repo._assert_clean raises DirtyRepoError
AssertCleanRaises(w) == w.dirty

\* the end of Repo.ensure: report the branch and the tags at HEAD
EnsureTail(c) ==
    LET c1 == IF ~Detached(c.wc) THEN Debug(c, " * branch") ELSE c
        c2 == IF Detached(c.wc) /\ c.wc.tag /\ c.wc.head = TagCommit
              THEN Debug(c1, " * head_tags") ELSE c1
    IN  Return(c2)

\* a dry run that passes over the upstream change without a word
EnsureSetUpstreamSilent(c) ==
    IF ~c.loc.dry
    THEN Run(c, <<"git branch --set-upstream-to", desc.remote, desc.branch>>,
             "dpath", "setup")
    ELSE EnsureTail(c)

\* Repo.ensure: set the upstream, or say so in dry mode
EnsureSetUpstream(c) ==
    IF ~c.loc.dry
    THEN Run(c, <<"git branch --set-upstream-to", desc.remote, desc.branch>>,
             "dpath", "setup")
    ELSE EnsureTail(Info(c, "Would attempt to set upstream"))

\* Repo.ensure after the fetch of the tracking step came back
EnsureRefetched(c) ==
    IF desc.branch \notin c.wc.refs[desc.remote]
    THEN Raise(c, "Exception")
    ELSE EnsureSetUpstream(c)

\* Repo.ensure: the tracking step
EnsureTrack(c) ==
    IF c.loc.ref_is_tag THEN EnsureTail(c)
    ELSE IF c.loc.tracking_branch = None \/ c.loc.tracking_branch # desc.remote
    THEN LET c1 == Debug(c, "NEED TO SET UPSTREAM")
         IN  IF ~RemoteExists(c1.wc, desc.remote)
             THEN EnsureTail(Debug(c1, "WARNING: remote does not exist"))
             ELSE IF desc.branch \notin c1.wc.refs[desc.remote]
             THEN IF c1.loc.dry
                  THEN EnsureSetUpstream(Info(c1, "Branch name not found. Dry run"))
                  ELSE Run(Info(c1, "Branch name not found. Attempting to fetch"),
                           <<"git fetch", desc.remote>>, "dpath", "fetch3")
             ELSE EnsureSetUpstream(c1)
    ELSE EnsureTail(c)

\* Repo.ensure: the checkout, or its report in dry mode
EnsureCheckout(c) ==
    LET c1 == Debug(c, "NEED TO SET BRANCH")
    IN  IF c1.loc.dry
        THEN EnsureTrack(Info(c1, "Dry run, not setting branch"))
        ELSE Run(c1, <<"git checkout", desc.branch>>, "dpath", "checkout")

\* an ensure that does not remember that the desired ref is a tag
EnsureBranchForgetsTag(c) ==
    IF Detached(c.wc)
    THEN IF ~c.wc.tag
         THEN Raise(c, "TypeError")
         ELSE IF c.wc.head = TagCommit THEN EnsureTrack(c)
              ELSE EnsureCheckout(c)
    ELSE LET t  == c.wc.track[c.wc.head]
             c1 == [c EXCEPT !.loc.tracking_branch =
                                 IF t = NoTrack THEN None ELSE t]
         IN  IF desc.branch = c1.wc.head THEN EnsureTrack(c1)
             ELSE EnsureCheckout(c1)

\* Repo.ensure: which ref is HEAD on
EnsureBranch(c) ==
    IF Detached(c.wc)
    THEN IF ~c.wc.tag
         THEN Raise(c, "TypeError")
         ELSE LET c1 == [c EXCEPT !.loc.ref_is_tag = TRUE]
              IN  IF c1.wc.head = TagCommit THEN EnsureTrack(c1)
                  ELSE EnsureCheckout(c1)
    ELSE LET t  == c.wc.track[c.wc.head]
             c1 == [c EXCEPT !.loc.ref_is_tag = FALSE,
                             !.loc.tracking_branch =
                                 IF t = NoTrack THEN None ELSE t]
         IN  IF desc.branch = c1.wc.head THEN EnsureTrack(c1)
             ELSE EnsureCheckout(c1)

\* EnsureUrl without the dry guard: the url is updated in dry mode too
EnsureUrlUnguarded(c) ==
    IF desc.url \notin c.wc.urls[c.loc.remote]
    THEN Run(Info(Debug(c, "WARNING: url disagrees with remote urls"),
                  "Updating remote url"),
             <<"git remote set-url", desc.remote, desc.url>>, "dpath", "seturl")
    ELSE EnsureBranch(c)

\* EnsureUrl that only warns: the url is never updated
EnsureUrlWarnOnly(c) ==
    IF desc.url \notin c.wc.urls[c.loc.remote]
    THEN EnsureBranch(Debug(c, "WARNING: url disagrees with remote urls"))
    ELSE EnsureBranch(c)

\* Repo.ensure: the remote points to the right place
EnsureUrl(c) ==
    IF desc.url \notin c.wc.urls[c.loc.remote]
    THEN LET c1 == Debug(c, "WARNING: url disagrees with remote urls")
         IN  IF c1.loc.dry
             THEN EnsureBranch(Info(c1, "Dry run, not updating remote url"))
             ELSE Run(Info(c1, "Updating remote url"),
                      <<"git remote set-url", desc.remote, desc.url>>,
                      "dpath", "seturl")
    ELSE EnsureBranch(c)

\* Repo.ensure with the remote resolved: fetch when the branch is unknown
EnsureRemote(c) ==
    IF c.loc.remote = None THEN EnsureTail(c)
    ELSE IF ~RemoteExists(c.wc, c.loc.remote)
    THEN EnsureUrl(Debug(c, "WARNING: remote does not exist"))
    ELSE LET c1 == Debug(Debug(c, "The requested remote name exists"),
                         "Requested remote does exists")
         IN  IF desc.branch \notin c1.wc.refs[c1.loc.remote]
             THEN LET c2 == Info(c1, "Branch name not found in local remote")
                  IN  IF c2.loc.dry
                      THEN EnsureUrl(Info(c2, "dry run, not fetching"))
                      ELSE Run(c2, <<"git fetch", c2.loc.remote>>, "dpath", "fetch1")
             ELSE EnsureUrl(c1)

-----------------------------------------------------------------------------
(* Repo.upgrade *)

\* the names of remote branches, as sequences of atoms
NameAtoms(b) ==
    CASE b = "master"        -> <<"master">>
      [] b = "dev/1.2"       -> <<"dev/", "1", ".", "2">>
      [] b = "dev/1.10"      -> <<"dev/", "1", ".", "10">>
      [] b = "dev/2.0"       -> <<"dev/", "2", ".", "0">>
      [] b = "dev/2"         -> <<"dev/", "2">>
      [] b = "dev/1.x"       -> <<"dev/", "1", ".", "x">>
      [] b = "dev/"          -> <<"dev/">>
      [] b = "feature/dev/3" -> <<"feature/", "dev/", "3">>
      [] b = "dev/2.1dev/x"  -> <<"dev/", "2", ".", "1", "dev/", "x">>

\* the atoms int() accepts, and their values
IntAtoms == {"0", "1", "2", "3", "10"}

IntOf(a) ==
    CASE a = "0" -> 0 [] a = "1" -> 1 [] a = "2" -> 2 [] a = "3" -> 3
      [] a = "10" -> 10

\* s.split(sep) for a one-atom separator
RECURSIVE SplitOn(_, _)
SplitOn(s, sep) ==
    IF s = <<>> THEN << <<>> >>
    ELSE IF Head(s) = sep THEN << <<>> >> \o SplitOn(Tail(s), sep)
    ELSE LET r == SplitOn(Tail(s), sep)
         IN  << <<Head(s)>> \o r[1] >> \o Tail(r)

\* tuple(map(int, name.split('dev/')[1].split('.'))) for the names that
\* start with 'dev/' and parse; <<>> for the names that are skipped
DevVersion(b) ==
    LET at == NameAtoms(b)
    IN  IF Head(at) # "dev/" THEN <<>>
        ELSE LET fields == SplitOn(SplitOn(at, "dev/")[2], ".")
             IN  IF \A k \in DOMAIN fields :
                        Len(fields[k]) = 1 /\ fields[k][1] \in IntAtoms
                 THEN [k \in DOMAIN fields |-> IntOf(fields[k][1])]
                 ELSE <<>>

\* Python's order on tuples of integers
RECURSIVE TupleLess(_, _)
TupleLess(s, t) ==
    IF t = <<>> THEN FALSE
    ELSE IF s = <<>> THEN TRUE
    ELSE IF Head(s) # Head(t) THEN Head(s) < Head(t)
    ELSE TupleLess(Tail(s), Tail(t))

\* the remote branches upgrade considers
DevBranches(names) == {b \in names : DevVersion(b) # <<>>}

\* dev_branches[ub.argmax(version_tuples)]
LatestDev(names) ==
    CHOOSE b \in DevBranches(names) :
        \A o \in DevBranches(names) : ~TupleLess(DevVersion(b), DevVersion(o))

\* Repo.upgrade after its fetch came back: pick the branch, check it out
UpgradeSelect(c) ==
    LET c1  == Info(c, "Fetch was successful")
        own == c1.wc.refs[c1.loc.remote]
    IN  IF DevBranches(own) = {} THEN Raise(c1, "ValueError")
        ELSE IF Detached(c1.wc) THEN Raise(c1, "TypeError")
        ELSE IF c1.wc.head = LatestDev(own)
        THEN Return(Info(c1, "Already on the latest dev branch"))
        ELSE Run([c1 EXCEPT !.loc.latest = LatestDev(own)],
                 <<"git checkout", LatestDev(own)>>, "dpath", "ucheckout")

\* Repo.upgrade: the fetch of the active remote
UpgradeFetch(c) ==
    IF c.loc.remote = None THEN Raise(c, "AttributeError")
    ELSE Run(c, <<"git fetch", c.loc.remote>>, "dpath", "ufetch")

-----------------------------------------------------------------------------
(* Repo._registered_remote and Repo._ensure_remotes *)

\* back in the caller of _registered_remote
AfterRegisteredRemote(c) ==
    IF c.loc.op = "upgrade" THEN UpgradeFetch(c) ELSE EnsureRemote(c)

\* _registered_remote: report on the remote that was found
RegisteredRemoteCheck(c) ==
    IF c.loc.remote = None THEN AfterRegisteredRemote(c)
    ELSE IF ~RemoteExists(c.wc, c.loc.remote)
    THEN AfterRegisteredRemote(Debug(c, "WARNING: remote does not exist"))
    ELSE AfterRegisteredRemote(Debug(c, "The requested remote name exists"))

\* _registered_remote: the second lookup, after _ensure_remotes
RegisteredRemoteRetry(c) ==
    IF HasRemote(c.wc, desc.remote)
    THEN RegisteredRemoteCheck([c EXCEPT !.loc.remote = desc.remote])
    ELSE RegisteredRemoteCheck(
             [Debug(c, "Something went wrong, cannot find remote in git")
                 EXCEPT !.loc.remote = None])

\* _ensure_remotes: the loop over repo.remotes.items(), from its i-th item
RECURSIVE EnsureRemotesFrom(_, _)
EnsureRemotesFrom(c, i) ==
    IF i > Len(desc.order) THEN RegisteredRemoteRetry(c)
    ELSE IF HasRemote(c.wc, desc.order[i]) THEN EnsureRemotesFrom(c, i + 1)
    ELSE IF c.loc.dry THEN Raise(c, "AssertionError")
    ELSE Run([c EXCEPT !.loc.ri = i],
             <<"git remote add", desc.order[i], desc.remotes[desc.order[i]]>>,
             "dpath", "add")

\* an _ensure_remotes in which every failed git remote add is fatal
RemoteAddFailedAlways(c) == Raise(c, "ShellException")

\* _ensure_remotes: git remote add failed for the i-th declared remote
RemoteAddFailed(c) ==
    IF desc.order[c.loc.ri] = desc.remote THEN Raise(c, "ShellException")
    ELSE EnsureRemotesFrom(c, c.loc.ri + 1)

\* _registered_remote: the first lookup
RegisteredRemote(c) ==
    IF HasRemote(c.wc, desc.remote)
    THEN RegisteredRemoteCheck([c EXCEPT !.loc.remote = desc.remote])
    ELSE EnsureRemotesFrom(c, 1)

-----------------------------------------------------------------------------
(* The entry points *)

\* Repo.ensure from the dirty check on
EnsureAssertClean(c) ==
    IF AssertCleanRaises(c.wc) THEN Raise(c, "DirtyRepoError")
    ELSE RegisteredRemote(c)

\* Repo.clone
CloneBody(c) ==
    IF c.wc.exists THEN Raise(c, "ValueError")
    ELSE Run(c, <<"git clone --recursive -b", desc.branch, desc.url>>,
             "code_dpath", "clone")

\* Repo.ensure_clone
EnsureCloneBody(c) ==
    IF c.wc.exists
    THEN LET c1 == Debug(c, "No need to clone existing repo")
         IN  IF c1.loc.op = "ensure" THEN EnsureAssertClean(c1) ELSE Return(c1)
    ELSE CloneBody(Debug(c, "Clone non-existing repo"))

\* an ensure that goes on to ensure_clone in a dry run too
EnsureBodyAlwaysClones(c) ==
    IF ~c.wc.exists THEN EnsureCloneBody(Debug(c, "NEED TO CLONE"))
    ELSE EnsureCloneBody(c)

\* an ensure whose whole body sits under `if repo.verbose > 0`
EnsureBodyVerboseOnly(c) ==
    IF c.loc.verbose > 0
    THEN LET c1 == Debug(c, IF c.loc.dry THEN "Checking" ELSE "Ensuring")
         IN  IF ~c1.wc.exists
             THEN LET c2 == Debug(c1, "NEED TO CLONE")
                  IN  IF c2.loc.dry THEN Return(c2) ELSE EnsureCloneBody(c2)
             ELSE EnsureCloneBody(c1)
    ELSE Return(c)

\* Repo.ensure from its first line
EnsureBody(c) ==
    LET c1 == IF c.loc.verbose > 0
              THEN Debug(c, IF c.loc.dry THEN "Checking" ELSE "Ensuring")
              ELSE c
    IN  IF ~c1.wc.exists
        THEN LET c2 == Debug(c1, "NEED TO CLONE")
             IN  IF c2.loc.dry THEN Return(c2) ELSE EnsureCloneBody(c2)
        ELSE EnsureCloneBody(c1)

\* Repo.pull
PullBody(c) ==
    IF ~c.wc.exists THEN Raise(c, "NoSuchPathError")
    ELSE IF AssertCleanRaises(c.wc) THEN Raise(c, "DirtyRepoError")
    ELSE Run(c, <<"git pull">>, "dpath", "pull")

\* Repo.upgrade
UpgradeBody(c) ==
    IF ~c.wc.exists THEN Raise(c, "NoSuchPathError")
    ELSE RegisteredRemote(c)

\* Repo.status
StatusBody(c) == Run(c, <<"git status">>, "dpath", "status")

\* Repo.develop from `pip install -e .`
DevelopInstall(c) == Run(c, <<"pip install -e .">>, "dpath", "pip_e")

\* Repo.develop; build_req says whether requirements/build.txt exists
DevelopBody(c, build_req) ==
    IF build_req
    THEN Run(c, <<"pip install -r requirements/build.txt">>, "dpath", "pip_r")
    ELSE DevelopInstall(c)

-----------------------------------------------------------------------------
(* ub.cmd came back: the exit status of the command named by c.pc *)

\* whether git can exit 0 on the command that is executing
CanSucceed(c) ==
    CASE c.pc = "clone"       -> CanClone(c.wc)
      [] c.pc = "add"         -> CanRemoteAdd(c.wc, desc.order[c.loc.ri])
      [] c.pc = "fetch1"      -> CanFetch(c.wc, c.loc.remote)
      [] c.pc = "seturl"      -> CanSetUrl(c.wc, desc.remote)
      [] c.pc = "checkout"    -> CanCheckout(c.wc, desc.branch)
      [] c.pc = "fetch2"      -> CanFetch(c.wc, c.loc.remote)
      [] c.pc = "checkout_b"  -> CanCheckoutNew(c.wc, desc.branch, desc.remote)
      [] c.pc = "fetch3"      -> CanFetch(c.wc, desc.remote)
      [] c.pc = "setup"       -> CanSetUpstream(c.wc, desc.branch, desc.remote)
      [] c.pc = "pull"        -> CanPull(c.wc)
      [] c.pc = "ufetch"      -> CanFetch(c.wc, c.loc.remote)
      [] c.pc = "ucheckout"   -> CanCheckout(c.wc, c.loc.latest)
      [] c.pc = "ucheckout_b" -> CanCheckoutNew(c.wc, c.loc.latest, c.loc.remote)
      [] c.pc = "status"      -> c.wc.exists
      [] c.pc = "pip_r"       -> c.wc.exists
      [] c.pc = "pip_e"       -> c.wc.exists
      [] OTHER                -> FALSE

\* Repo.clone after its command: back in ensure, or done
AfterClone(c) ==
    IF c.loc.op = "ensure" THEN EnsureAssertClean(c) ELSE Return(c)

\* a fallback that creates the branch without fetching first
EnsureCheckoutFailedNoFetch(c) ==
    Run(Debug(c, "Checkout failed. Trying again"),
        <<"git checkout -b", desc.branch, desc.remote>>, "dpath", "checkout_b")

\* Repo.ensure: the fallback after `git checkout <branch>` failed
EnsureCheckoutFailed(c) ==
    Run(Debug(c, "Checkout failed. Trying again"),
        <<"git fetch", c.loc.remote>>, "dpath", "fetch2")

\* Repo.ensure: the second command of the fallback
EnsureCheckoutNew(c) ==
    Run(c, <<"git checkout -b", desc.branch, desc.remote>>, "dpath", "checkout_b")

\* Repo.upgrade: the fallback after `git checkout <latest>` failed
UpgradeCheckoutFailed(c) ==
    Run(Debug(c, "Checkout failed. Trying again"),
        <<"git checkout -b", c.loc.latest, c.loc.remote>>, "dpath", "ucheckout_b")

\* the command exited 0: its effect, then the code after the _cmd call
OnOk(c) ==
    LET W(w) == [c EXCEPT !.wc = w]
    IN  CASE c.pc = "clone"      -> AfterClone(W(GitClone(c.wc)))
          [] c.pc = "add"        ->
                EnsureRemotesFrom(
                    W(GitRemoteAdd(c.wc, desc.order[c.loc.ri],
                                   desc.remotes[desc.order[c.loc.ri]])),
                    c.loc.ri + 1)
          [] c.pc = "fetch1"     ->
                EnsureUrl(Info(W(GitFetch(c.wc, c.loc.remote)),
                               "Fetch was successful"))
          [] c.pc = "seturl"     ->
                EnsureBranch(W(GitSetUrl(c.wc, desc.remote, desc.url)))
          [] c.pc = "checkout"   -> EnsureTrack(W(GitCheckout(c.wc, desc.branch)))
          [] c.pc = "fetch2"     -> EnsureCheckoutNew(W(GitFetch(c.wc, c.loc.remote)))
          [] c.pc = "checkout_b" ->
                EnsureTrack(W(GitCheckoutNew(c.wc, desc.branch, desc.remote)))
          [] c.pc = "fetch3"     -> EnsureRefetched(W(GitFetch(c.wc, desc.remote)))
          [] c.pc = "setup"      ->
                EnsureTail(W(GitSetUpstream(c.wc, desc.branch, desc.remote)))
          [] c.pc = "pull"       -> Return(W(GitPull(c.wc)))
          [] c.pc = "ufetch"     -> UpgradeSelect(W(GitFetch(c.wc, c.loc.remote)))
          [] c.pc = "ucheckout"  -> Return(W(GitCheckout(c.wc, c.loc.latest)))
          [] c.pc = "ucheckout_b" ->
                Return(W(GitCheckoutNew(c.wc, c.loc.latest, c.loc.remote)))
          [] c.pc = "status"     -> Return(c)
          [] c.pc = "pip_r"      -> DevelopInstall(c)
          [] c.pc = "pip_e"      -> Return(c)

\* the command exited nonzero: ShellException, and who catches it
OnFail(c) ==
    LET c1 == c
    IN  CASE c.pc = "clone"       ->
                IF CanClone(c.wc) THEN Raise(c1, "ShellException")
                ELSE Raise(c1, "Exception")
          [] c.pc = "add"         -> RemoteAddFailed(c1)
          [] c.pc = "checkout"    -> EnsureCheckoutFailed(c1)
          [] c.pc = "fetch2"      -> Raise(c1, "Exception")
          [] c.pc = "checkout_b"  -> Raise(c1, "Exception")
          [] c.pc = "ucheckout"   -> UpgradeCheckoutFailed(c1)
          [] c.pc = "ucheckout_b" -> Raise(c1, "Exception")
          [] OTHER                -> Raise(c1, "ShellException")

-----------------------------------------------------------------------------
(* The engine as a state machine: one Repo object and its working copy *)

\* the locals of a method at its first line
Locals(op, dry) ==
    [op |-> op, dry |-> dry, verbose |-> desc.verbose, remote |-> None,
     ref_is_tag |-> FALSE, tracking_branch |-> None, ri |-> 0, latest |-> None]

Cur ==
    [wc |-> wc, loc |-> loc, cmds |-> logged_cmds, lines |-> logged_lines,
     pc |-> pc, result |-> result]

Become(c) ==
    /\ wc' = c.wc
    /\ loc' = c.loc
    /\ logged_cmds' = c.cmds
    /\ logged_lines' = c.lines
    /\ pc' = c.pc
    /\ result' = c.result

\* a caller invokes a method of the idle Repo
Enter(op, dry) ==
    /\ pc = "idle"
    /\ nOps < MaxOps
    /\ nOps' = nOps + 1
    /\ pre' = wc
    /\ mark' = Len(logged_cmds)
    /\ prev' = [op |-> loc.op, dry |-> loc.dry, result |-> result,
                ncmds |-> Len(logged_cmds) - mark]
    /\ UNCHANGED <<call, desc, upstream, batchVars>>

Start(op, dry) == [Cur EXCEPT !.loc = Locals(op, dry), !.result = "running"]

\* repo.check()
Check == Enter("ensure", TRUE) /\ Become(EnsureBody(Start("ensure", TRUE)))

\* repo.check() on the working copy w, as a function: a dry ensure runs to
\* its end without a command
CheckOf(w) ==
    EnsureBody([Cur EXCEPT !.wc = w, !.loc = Locals("ensure", TRUE),
                           !.cmds = <<>>, !.lines = <<>>, !.pc = "idle",
                           !.result = "running"])

\* repo.ensure()
Ensure == Enter("ensure", FALSE) /\ Become(EnsureBody(Start("ensure", FALSE)))

\* repo.pull()
Pull == Enter("pull", FALSE) /\ Become(PullBody(Start("pull", FALSE)))

\* repo.upgrade()
Upgrade == Enter("upgrade", FALSE) /\ Become(UpgradeBody(Start("upgrade", FALSE)))

\* repo.clone()
Clone == Enter("clone", FALSE) /\ Become(CloneBody(Start("clone", FALSE)))

\* repo.ensure_clone()
EnsureClone ==
    /\ Enter("ensure_clone", FALSE)
    /\ Become(EnsureCloneBody(Start("ensure_clone", FALSE)))

\* repo.status()
Status == Enter("status", FALSE) /\ Become(StatusBody(Start("status", FALSE)))

\* repo.develop()
Develop ==
    /\ Enter("develop", FALSE)
    /\ \E build_req \in BOOLEAN :
          /\ (build_req => wc.exists)
          /\ Become(DevelopBody(Start("develop", FALSE), build_req))

\* the executing command exits 0
CmdReturns ==
    /\ pc # "idle"
    /\ CanSucceed(Cur)
    /\ \E o \in Outputs(TRUE) : Become(OnOk(CmdLogged(Cur, o[1], o[2])))
    /\ UNCHANGED <<call, desc, upstream, pre, mark, prev, nOps, batchVars>>

\* the executing command exits nonzero
CmdFails ==
    /\ pc # "idle"
    /\ \E o \in Outputs(FALSE) : Become(OnFail(CmdLogged(Cur, o[1], o[2])))
    /\ UNCHANGED <<call, desc, upstream, pre, mark, prev, nOps, batchVars>>

\* Repo.__init__: from remote=<url>, or from remotes=<map> and remote=<name>
DescInit ==
    {[remote |-> "origin", url |-> UrlOf["origin"], order |-> <<"origin">>,
      remotes |-> UrlOf, branch |-> "master", verbose |-> 3]}
    \cup
    {[remote |-> r, url |-> UrlOf[r], order |-> <<"origin", "mirror">>,
      remotes |-> UrlOf, branch |-> "master", verbose |-> 3] : r \in RemoteNames}

\* what the server may hold: every branch; the desired name only as a tag;
\* as a branch and a tag; nothing
UpstreamInit ==
    {[branches |-> BranchNames, tag |-> FALSE],
     [branches |-> {"dev/1.2"}, tag |-> TRUE],
     [branches |-> {"master"}, tag |-> TRUE],
     [branches |-> {}, tag |-> FALSE]}

NoWorkingCopy ==
    [exists |-> FALSE, dirty |-> FALSE, reg |-> {},
     urls |-> [r \in RemoteNames |-> {}], refs |-> [r \in RemoteNames |-> {}],
     head |-> "master", track |-> [b \in BranchNames |-> Absent], tag |-> FALSE]

\* the working copies a call may find at repo.dpath.  A registered remote
\* has one url and is declared in repo.remotes; a remote other than the
\* active one has its declared url; HEAD is detached at a commit other than
\* the tag's only where the tag exists; a
\* branch that is not checked out and is not the desired one is listed with
\* one tracking state only, since no method reads it.
WorkingCopies(d) ==
    {NoWorkingCopy} \cup
    {w \in [exists : {TRUE}, dirty : BOOLEAN, reg : SUBSET RemoteNames,
            urls : [RemoteNames -> {{}, {"uO"}, {"uM"}, {"uX"}}],
            refs : [RemoteNames -> {{}, {"master"}, {"dev/1.2", "dev/1.10"}}],
            head : {"master", "dev/1.2"} \cup Commits,
            track : [BranchNames -> {Absent, NoTrack} \cup RemoteNames],
            tag : BOOLEAN] :
        /\ \A r \in RemoteNames :
              IF r \in w.reg
              THEN /\ w.urls[r] \in {{UrlOf[r]}, {"uX"}}
                   /\ (r # d.remote => w.urls[r] = {UrlOf[r]})
                   /\ (r # d.remote => w.refs[r] \in {{}, {"master"}})
                   /\ (\E k \in DOMAIN d.order : d.order[k] = r)
              ELSE w.urls[r] = {} /\ w.refs[r] = {}
        /\ w.track["dev/1.10"] = Absent
        /\ (IF w.head = "dev/1.2"
            THEN w.track["dev/1.2"] \in {NoTrack, d.remote}
            ELSE w.track["dev/1.2"] = Absent)
        /\ (w.head = "master" => w.track["master"] # Absent)
        /\ (w.head = "c2" => w.tag)
        /\ \A b \in BranchNames : w.track[b] \in RemoteNames => w.track[b] \in w.reg}

Init ==
    /\ desc \in DescInit
    /\ upstream \in UpstreamInit
    /\ wc \in WorkingCopies(desc)
    /\ pc = "idle"
    /\ loc = Locals(None, FALSE)
    /\ logged_cmds = <<>>
    /\ logged_lines = <<>>
    /\ result = None
    /\ pre = wc
    /\ mark = 0
    /\ prev = [op |-> None, dry |-> FALSE, result |-> None, ncmds |-> 0]
    /\ nOps = 0
    /\ funcname = None
    /\ num_workers = 0
    /\ tasks = <<>>
    /\ processed = <<>>
    /\ apply = "none"
    /\ printed = <<>>
    /\ issued = <<>>
    /\ call = NoCall

Next ==
    \/ Check
    \/ Ensure
    \/ Pull
    \/ Upgrade
    \/ CmdReturns
    \/ CmdFails

Spec == Init /\ [][Next]_vars

\* every public operation of one Repo declared with remote=<url>
InitOps == Init /\ desc.order = <<"origin">>

NextOps ==
    \/ Check
    \/ Ensure
    \/ Pull
    \/ Upgrade
    \/ Clone
    \/ EnsureClone
    \/ Status
    \/ Develop
    \/ CmdReturns
    \/ CmdFails

SpecOps == InitOps /\ [][NextOps]_vars

-----------------------------------------------------------------------------
(* RepoRegistry.apply: one method applied to every repo of the registry,   *)
(* in a loop (num_workers = 0) or by a pool of worker processes.  The      *)
(* repos share the descriptor fields that matter here (remote, url,        *)
(* branch) and differ in their working directory; tasks[i].c.wc is the     *)
(* working copy of repo i, which only the call on repo i touches.          *)

NumRepos == 2

MaxWorkers == 2

Repos == 1..NumRepos

\* getattr(repo, funcname)(**kwargs)
Method(f, c) ==
    CASE f = "pull"   -> PullBody(c)
      [] f = "ensure" -> EnsureBody(c)

\* the method has returned or raised
Ended(c) == c.pc = "idle"

\* an except clause that catches nothing
CaughtNothing(exc) == FALSE

\* `except DirtyRepoError:` around the call and around future.result()
Caught(exc) == exc = "DirtyRepoError"

\* a loop that takes the repos last to first
SeqNextRepoReversed == NumRepos - Len(processed)

\* `for repo in registery.repos`: the repo of the next iteration
SeqNextRepo == Len(processed) + 1

\* a pool exit that does not wait for its workers
PoolQuietAlways == TRUE

\* leaving `with futures.ProcessPoolExecutor(...) as pool` waits until every
\* submitted task has run
PoolQuiet == \A i \in Repos : tasks[i].st \in {"done", "collected"}

\* what processed_repos holds of a Repo object: its identity and its logs
Processed(i, cmds, lines) == [id |-> i, cmds |-> cmds, lines |-> lines]

\* the LOGGED COMMANDS section: per processed repo, its _logged_cmds
Trail(procs) ==
    [k \in 1..Len(procs) |->
        [kind |-> "cmds", repo |-> procs[k].id, body |-> procs[k].cmds]]

\* the repo of a newly issued command joins the order of issue
IssuedBy(i, before, after) ==
    IF Len(after.cmds) > Len(before.cmds) THEN Append(issued, i) ELSE issued

\* the rest of a sequential iteration once the method call on repo i ended:
\* DirtyRepoError is swallowed, any other exception leaves apply; after
\* the last repo the logged commands are printed
SeqFinish(i, c) ==
    IF c.result = "ok" \/ Caught(c.result)
    THEN /\ processed' = Append(processed, Processed(i, c.cmds, c.lines))
         /\ IF Len(processed) + 1 = NumRepos
            THEN /\ apply' = "returned"
                 /\ printed' = printed \o Trail(processed')
            ELSE UNCHANGED <<apply, printed>>
    ELSE /\ apply' = "raised"
         /\ UNCHANGED <<processed, printed>>

\* a method call on repo i moved from configuration `before` to `after`
TaskMoves(i, before, after) ==
    /\ tasks' = [tasks EXCEPT ![i] =
                    [st |-> IF Ended(after) THEN "done" ELSE "running",
                     c |-> after]]
    /\ issued' = IssuedBy(i, before, after)
    /\ IF num_workers = 0 /\ Ended(after)
       THEN SeqFinish(i, after)
       ELSE UNCHANGED <<processed, apply, printed>>
    /\ UNCHANGED <<call, desc, upstream, engineVars, funcname, num_workers>>

\* num_workers = 0: the loop calls the method on its next repo
SeqBegin(i) ==
    /\ num_workers = 0
    /\ apply = "loop"
    /\ i = SeqNextRepo
    /\ tasks[i].st = "pending"
    /\ TaskMoves(i, tasks[i].c,
                 Method(funcname,
                        [tasks[i].c EXCEPT !.loc = Locals(funcname, FALSE),
                                           !.result = "running"]))

\* worker(repo, funcname, kwargs) in a pool process, on its copy of the repo:
\* tasks start in the order submitted, num_workers at a time
PoolBegin(i) ==
    /\ num_workers > 0
    /\ tasks[i].st = "pending"
    /\ \A j \in Repos : j < i => tasks[j].st # "pending"
    /\ Cardinality({j \in Repos : tasks[j].st = "running"}) < num_workers
    /\ TaskMoves(i, tasks[i].c,
                 Method(funcname,
                        [tasks[i].c EXCEPT
                            !.loc = [Locals(funcname, FALSE) EXCEPT !.verbose = 0],
                            !.result = "running"]))

\* the command executing for repo i exits 0
TaskCmdReturns(i) ==
    /\ tasks[i].st = "running"
    /\ CanSucceed(tasks[i].c)
    /\ \E o \in Outputs(TRUE) :
          TaskMoves(i, tasks[i].c, OnOk(CmdLogged(tasks[i].c, o[1], o[2])))

\* the command executing for repo i exits nonzero
TaskCmdFails(i) ==
    /\ tasks[i].st = "running"
    /\ \E o \in Outputs(FALSE) :
          TaskMoves(i, tasks[i].c, OnFail(CmdLogged(tasks[i].c, o[1], o[2])))

\* `for future in futures.as_completed(tasks)`: one completed future.  The
\* parent's Repo object was pickled for the worker and holds nothing of the
\* call; future.result() returns the worker's copy or raises its exception.
Collect(i) ==
    /\ num_workers > 0
    /\ apply = "loop"
    /\ tasks[i].st = "done"
    /\ tasks' = [tasks EXCEPT ![i].st = "collected"]
    /\ LET c == tasks[i].c
           add(entry, out) ==
               /\ processed' = Append(processed, entry)
               /\ IF Len(processed) + 1 = NumRepos
                  THEN /\ apply' = "returned"
                       /\ printed' = (printed \o out) \o Trail(processed')
                  ELSE /\ apply' = apply
                       /\ printed' = printed \o out
       IN  IF c.result = "ok"
           THEN add(Processed(i, c.cmds, c.lines),
                    <<[kind |-> "lines", repo |-> i, body |-> c.lines]>>)
           ELSE IF Caught(c.result)
           THEN add(Processed(i, <<>>, <<>>), <<>>)
           ELSE /\ apply' = "unwinding"
                /\ UNCHANGED <<processed, printed>>
    /\ UNCHANGED <<call, desc, upstream, engineVars, funcname, num_workers, issued>>

\* the exception of a future leaves the `with` block once the pool is quiet
PoolShutdown ==
    /\ apply = "unwinding"
    /\ PoolQuiet
    /\ apply' = "raised"
    /\ UNCHANGED <<call, desc, upstream, engineVars, funcname, num_workers, tasks,
                   processed, printed, issued>>

CleanTree ==
    [exists |-> TRUE, dirty |-> FALSE, reg |-> {"origin"},
     urls |-> [r \in RemoteNames |-> IF r = "origin" THEN {"uO"} ELSE {}],
     refs |-> [r \in RemoteNames |-> IF r = "origin" THEN {"master"} ELSE {}],
     head |-> "master",
     track |-> [b \in BranchNames |-> IF b = "master" THEN "origin" ELSE Absent],
     tag |-> FALSE]

\* the working copies of a batch: absent, dirty, as desired, on another branch
BatchTrees ==
    {NoWorkingCopy,
     CleanTree,
     [CleanTree EXCEPT !.dirty = TRUE],
     [CleanTree EXCEPT !.head = "dev/1.2", !.track["dev/1.2"] = "origin"]}

\* apply at the top of its loop; in pool mode every task is submitted
BatchInit ==
    /\ desc = [remote |-> "origin", url |-> UrlOf["origin"],
               order |-> <<"origin">>, remotes |-> UrlOf, branch |-> "master",
               verbose |-> 3]
    /\ upstream = [branches |-> BranchNames, tag |-> FALSE]
    /\ wc = NoWorkingCopy
    /\ pc = "idle"
    /\ loc = Locals(None, FALSE)
    /\ logged_cmds = <<>>
    /\ logged_lines = <<>>
    /\ result = None
    /\ pre = wc
    /\ mark = 0
    /\ prev = [op |-> None, dry |-> FALSE, result |-> None, ncmds |-> 0]
    /\ nOps = 0
    /\ funcname \in {"pull", "ensure"}
    /\ num_workers \in 0..MaxWorkers
    /\ tasks \in [Repos ->
                    {[st |-> "pending",
                      c |-> [wc |-> w, loc |-> Locals(None, FALSE), cmds |-> <<>>,
                             lines |-> <<>>, pc |-> "idle", result |-> None]] :
                        w \in BatchTrees}]
    /\ processed = <<>>
    /\ apply = "loop"
    /\ printed = <<>>
    /\ issued = <<>>
    /\ call = NoCall

BatchNext ==
    \/ \E i \in Repos : SeqBegin(i)
    \/ \E i \in Repos : PoolBegin(i)
    \/ \E i \in Repos : TaskCmdReturns(i)
    \/ \E i \in Repos : TaskCmdFails(i)
    \/ \E i \in Repos : Collect(i)
    \/ PoolShutdown

SpecBatch == BatchInit /\ [][BatchNext]_vars

-----------------------------------------------------------------------------
(* The two modes of apply on one batch in one environment.  Which commands  *)
(* exit nonzero is fixed with the batch: call.fails[i] holds the commands   *)
(* of repo i the environment lets fail (a command git cannot carry out      *)
(* fails anyway), and call.trees[i] is the working copy repo i starts from. *)

\* the commands whose exit status the environment decides
ExitPoints == {"clone", "checkout", "pull"}

\* ub.cmd exits 0 on the command that executes in c
ExitsZero(c, fails) == c.pc \notin fails /\ CanSucceed(c)

\* the command executing for repo i exits 0
ExitCmdReturns(i) ==
    /\ call.fn = "exits"
    /\ ExitsZero(tasks[i].c, call.fails[i])
    /\ TaskCmdReturns(i)

\* the command executing for repo i exits nonzero
ExitCmdFails(i) ==
    /\ call.fn = "exits"
    /\ ~ExitsZero(tasks[i].c, call.fails[i])
    /\ TaskCmdFails(i)

\* getattr(repo, funcname)(**kwargs) from the configuration c to its end
RECURSIVE RunToEnd(_, _)
RunToEnd(c, fails) ==
    IF Ended(c) THEN c
    ELSE IF ExitsZero(c, fails)
    THEN RunToEnd(OnOk(CmdLogged(c, TRUE, FALSE)), fails)
    ELSE RunToEnd(OnFail(CmdLogged(c, FALSE, TRUE)), fails)

\* the call the loop of num_workers = 0 makes on a repo whose working copy
\* is w, run to its end
SeqOutcome(w, fails) ==
    RunToEnd(Method(funcname,
                    [wc |-> w, loc |-> Locals(funcname, FALSE), cmds |-> <<>>,
                     lines |-> <<>>, pc |-> "idle", result |-> "running"]),
             fails)

\* apply at the top of its loop, the environment fixed
ModesInit ==
    /\ desc = [remote |-> "origin", url |-> UrlOf["origin"],
               order |-> <<"origin">>, remotes |-> UrlOf, branch |-> "master",
               verbose |-> 3]
    /\ upstream = [branches |-> BranchNames, tag |-> FALSE]
    /\ wc = NoWorkingCopy
    /\ pc = "idle"
    /\ loc = Locals(None, FALSE)
    /\ logged_cmds = <<>>
    /\ logged_lines = <<>>
    /\ result = None
    /\ pre = wc
    /\ mark = 0
    /\ prev = [op |-> None, dry |-> FALSE, result |-> None, ncmds |-> 0]
    /\ nOps = 0
    /\ funcname \in {"pull", "ensure"}
    /\ num_workers \in 0..MaxWorkers
    /\ \E trees \in [Repos -> BatchTrees], fails \in [Repos -> SUBSET ExitPoints] :
          /\ call = [fn |-> "exits", trees |-> trees, fails |-> fails]
          /\ tasks = [i \in Repos |->
                        [st |-> "pending",
                         c |-> [wc |-> trees[i], loc |-> Locals(None, FALSE),
                                cmds |-> <<>>, lines |-> <<>>, pc |-> "idle",
                                result |-> None]]]
    /\ processed = <<>>
    /\ apply = "loop"
    /\ printed = <<>>
    /\ issued = <<>>

ModesNext ==
    \/ \E i \in Repos : SeqBegin(i)
    \/ \E i \in Repos : PoolBegin(i)
    \/ \E i \in Repos : ExitCmdReturns(i)
    \/ \E i \in Repos : ExitCmdFails(i)
    \/ \E i \in Repos : Collect(i)
    \/ PoolShutdown

SpecModes == ModesInit /\ [][ModesNext]_vars

-----------------------------------------------------------------------------
(* GitURL.  A url is a sequence of atoms; an atom is a run of characters,   *)
(* and the character classes of the two SYNTAX_PATTERNS are sets of atoms.  *)

\* atoms of lower-case letters: \w, and in the host class [a-z0-9_.-]
LowerWords == {"git", "https", "http", "ssh", "host", "grp", "proj", "user",
               "a", "b"}

\* atoms of digits: \w, in the host class, and [0-9]
Digits == {"8080"}

\* atoms made of \w characters only; "Host" begins with an upper-case letter
Word == LowerWords \cup Digits \cup {"Host"}

\* atoms that end with \w characters, so that a \w+ can begin in them:
\* ".git" and "hub.io" begin or continue with a dot
WordTail == Word \cup {".git", "hub.io"}

\* atoms of characters of the host class [a-z0-9_.-]
HostChars == LowerWords \cup Digits \cup {".git", "hub.io"}

Max(S) == CHOOSE x \in S : \A y \in S : y <= x

Min(S) == CHOOSE x \in S : \A y \in S : x <= y

\* the atom at position k of s, "" beyond its end
At(s, k) == IF k \in 1..Len(s) THEN s[k] ELSE ""

\* where the longest run of atoms of class C that begins at p ends; 0 if none
RunEnd(s, p, C) ==
    LET E == {e \in p..Len(s) : \A k \in p..e : s[k] \in C}
    IN  IF E = {} THEN 0 ELSE Max(E)

\* \w+ from position i: it begins in the atom at i and runs over Word atoms
WordEnd(s, i) ==
    IF At(s, i) \notin WordTail THEN 0
    ELSE Max({e \in i..Len(s) : \A k \in (i + 1)..e : s[k] \in Word})

\* (?P<user>\w+[^@]*@) from position p: up to the first @ after p; 0 if none
UserEnd(s, p) ==
    LET Q == {q \in (p + 1)..Len(s) : s[q] = "@"}
    IN  IF At(s, p) \notin WordTail \/ Q = {} THEN 0 ELSE Min(Q)

\* (?P<path>.*\.git) from position p: up to the last ".git"; 0 if none
PathEnd(s, p) ==
    LET Q == {q \in p..Len(s) : s[q] = ".git"}
    IN  IF Q = {} THEN 0 ELSE Max(Q)

\* regex.search found nothing
NoMatch == [syntax |-> ""]

\* the groups of a match; a group that did not take part is <<>>
Groups(syntax, transport, user, host, port, path) ==
    [syntax |-> syntax, transport |-> transport, user |-> user, host |-> host,
     port |-> port, path |-> path]

\* the 'url' pattern from its host on: host, optional :port, /, path
UrlRest(s, p, transport, user) ==
    LET he == RunEnd(s, p, HostChars)
        de == IF he # 0 /\ At(s, he + 1) = ":" THEN RunEnd(s, he + 2, Digits)
              ELSE 0
    IN  IF he = 0 THEN NoMatch
        ELSE IF de # 0 /\ At(s, de + 1) = "/" /\ PathEnd(s, de + 2) # 0
        THEN Groups("url", transport, user, SubSeq(s, p, he),
                    SubSeq(s, he + 1, de),
                    SubSeq(s, de + 2, PathEnd(s, de + 2)))
        ELSE IF At(s, he + 1) = "/" /\ PathEnd(s, he + 2) # 0
        THEN Groups("url", transport, user, SubSeq(s, p, he), <<>>,
                    SubSeq(s, he + 2, PathEnd(s, he + 2)))
        ELSE NoMatch

\* the 'url' pattern matched at position i: transport, then the user group
\* if the rest matches with it, else without it
UrlAt(s, i) ==
    LET we == WordEnd(s, i)
        p  == we + 4
    IN  IF we = 0 \/ <<At(s, we + 1), At(s, we + 2), At(s, we + 3)>>
                        # <<":", "/", "/">>
        THEN NoMatch
        ELSE LET tr == SubSeq(s, i, we + 3)
                 ue == UserEnd(s, p)
                 withUser == IF ue = 0 THEN NoMatch
                             ELSE UrlRest(s, ue + 1, tr, SubSeq(s, p, ue))
             IN  IF withUser.syntax # "" THEN withUser
                 ELSE UrlRest(s, p, tr, <<>>)

\* the 'ssh' pattern matched at position i: user, host, :, path
SshAt(s, i) ==
    LET ue == UserEnd(s, i)
        he == IF ue = 0 THEN 0 ELSE RunEnd(s, ue + 1, HostChars)
    IN  IF he # 0 /\ At(s, he + 1) = ":" /\ PathEnd(s, he + 2) # 0
        THEN Groups("ssh", <<>>, SubSeq(s, i, ue), SubSeq(s, ue + 1, he), <<>>,
                    SubSeq(s, he + 2, PathEnd(s, he + 2)))
        ELSE NoMatch

\* regex.search with the 'url' pattern: the match at the leftmost position
\* that has one
SearchUrl(s) ==
    LET I == {i \in 1..Len(s) : UrlAt(s, i).syntax # ""}
    IN  IF I = {} THEN NoMatch ELSE UrlAt(s, Min(I))

\* regex.search with the 'ssh' pattern
SearchSsh(s) ==
    LET I == {i \in 1..Len(s) : SshAt(s, i).syntax # ""}
    IN  IF I = {} THEN NoMatch ELSE SshAt(s, Min(I))

\* GitURL.parts: the first pattern that matches, 'url' before 'ssh';
\* NoMatch stands for `raise Exception('Invalid URL ...')`
parts(url) ==
    LET m == SearchUrl(url)
    IN  IF m.syntax # "" THEN m ELSE SearchSsh(url)

\* how a function ended: it returned val, or it raised
Returned(val) == [ok |-> TRUE, val |-> val]

Raised(exc) == [ok |-> FALSE, val |-> exc]

\* GitURL.format once self.parts() came back with ps
FormatParts(ps, protocol) ==
    IF ps.syntax = "" THEN Raised("Exception")
    ELSE IF protocol = "ssh"
    THEN Returned(<<"git", "@">> \o ps.host \o <<":">> \o ps.path)
    ELSE Returned(<<protocol, ":", "/", "/">> \o ps.host \o <<"/">> \o ps.path)

\* GitURL.format
format(url, protocol) == FormatParts(parts(url), protocol)

\* the protocols main() passes to set_protocol
Protocols == {"ssh", "https", "http"}

\* the urls a GitURL is made of: [transport][user]host[:port](/|:)path
UrlInputs ==
    {(((tr \o us) \o ho) \o po) \o (se \o pa) :
        tr \in {<<>>, <<"https", ":", "/", "/">>, <<"ssh", ":", "/", "/">>},
        us \in {<<>>, <<"git", "@">>},
        ho \in {<<"host">>, <<"Host">>},
        po \in {<<>>, <<":", "8080">>},
        se \in {<<"/">>, <<":">>},
        pa \in {<<"proj", ".git">>, <<"grp", "/", "proj", ".git">>,
                <<"a", "@", "b", "/", "proj", ".git">>, <<"grp", "/", "proj">>}}

\* no working copy, no method running, no apply under way
AtRest ==
    /\ upstream = [branches |-> {}, tag |-> FALSE]
    /\ wc = NoWorkingCopy
    /\ pc = "idle"
    /\ loc = Locals(None, FALSE)
    /\ logged_cmds = <<>>
    /\ logged_lines = <<>>
    /\ result = None
    /\ pre = wc
    /\ mark = 0
    /\ prev = [op |-> None, dry |-> FALSE, result |-> None, ncmds |-> 0]
    /\ nOps = 0
    /\ funcname = None
    /\ num_workers = 0
    /\ tasks = <<>>
    /\ processed = <<>>
    /\ apply = "none"
    /\ printed = <<>>
    /\ issued = <<>>

\* everything but `call` is at rest
Parked ==
    /\ desc = [remote |-> "origin", url |-> UrlOf["origin"],
               order |-> <<"origin">>, remotes |-> UrlOf, branch |-> "master",
               verbose |-> 3]
    /\ AtRest

\* GitURL(url)
GitURLInit(url) == [_url |-> url, _parts |-> None]

\* gurl.parts()
GitURLParts ==
    /\ call.fn \in {"GitURL", "parts", "format"}
    /\ call' = [fn |-> "parts", self |-> call.self, protocol |-> None,
                ret |-> LET ps == parts(call.self._url)
                        IN  IF ps.syntax = "" THEN Raised("Exception")
                            ELSE Returned(ps)]
    /\ UNCHANGED <<desc, upstream, engineVars, batchVars>>

\* gurl.format(protocol)
GitURLFormat(protocol) ==
    /\ call.fn \in {"GitURL", "parts", "format"}
    /\ call' = [fn |-> "format", self |-> call.self, protocol |-> protocol,
                ret |-> format(call.self._url, protocol)]
    /\ UNCHANGED <<desc, upstream, engineVars, batchVars>>

UrlInit ==
    /\ Parked
    /\ \E url \in UrlInputs :
          call = [fn |-> "GitURL", self |-> GitURLInit(url), protocol |-> None,
                  ret |-> Returned(None)]

UrlNext ==
    \/ GitURLParts
    \/ \E protocol \in Protocols : GitURLFormat(protocol)

SpecUrl == UrlInit /\ [][UrlNext]_vars

-----------------------------------------------------------------------------
(* The branch upgrade picks, as a function of the remote's branch names *)

\* the names remote.refs may hold
RefNames ==
    {"master", "dev/1.2", "dev/1.10", "dev/2.0", "dev/2", "dev/1.x", "dev/",
     "feature/dev/3", "dev/2.1dev/x"}

\* Repo.upgrade from latest_branch on: the branch `git checkout` is issued
\* for, None when upgrade issues none; active is None on a detached HEAD
UpgradeCheckout(names, active) ==
    IF DevBranches(names) = {} \/ active = None THEN None
    ELSE IF active = LatestDev(names) THEN None
    ELSE LatestDev(names)

\* the exception these lines of Repo.upgrade raise, None when they raise none
UpgradeRaises(names, active) ==
    IF DevBranches(names) = {} THEN "ValueError"
    ELSE IF active = None THEN "TypeError"
    ELSE None

\* Repo.upgrade from dev_branches_ to the checkout
UpgradeLatest ==
    /\ call.fn \in {"refs", "latest"}
    /\ call' = [fn |-> "latest", names |-> call.names, active |-> call.active,
                ret |-> IF DevBranches(call.names) = {} THEN Raised("ValueError")
                        ELSE Returned(LatestDev(call.names)),
                raised |-> UpgradeRaises(call.names, call.active),
                checkout |-> UpgradeCheckout(call.names, call.active)]
    /\ UNCHANGED <<desc, upstream, engineVars, batchVars>>

LatestInit ==
    /\ Parked
    /\ \E names \in SUBSET RefNames, active \in RefNames \cup {None} :
          call = [fn |-> "refs", names |-> names, active |-> active,
                  ret |-> Returned(None), raised |-> None, checkout |-> None]

LatestNext == UpgradeLatest

SpecLatest == LatestInit /\ [][LatestNext]_vars

-----------------------------------------------------------------------------
(* determine_code_dpath *)

\* the places a code directory is read from, in the order of `candidates`
CodeSources == <<"--codedir", "--codedpath", "CODE_DPATH", "CODE_DIR">>

\* the value each place holds when it is given
PathOf(src) ==
    CASE src = "--codedir"   -> "/work/codedir"
      [] src = "--codedpath" -> "~/codedpath"
      [] src = "CODE_DPATH"  -> "/work/CODE_DPATH"
      [] src = "CODE_DIR"    -> "~/CODE_DIR"

\* ub.expandpath
expandpath(path) ==
    CASE path = "~/codedpath" -> "/home/codedpath"
      [] path = "~/CODE_DIR"  -> "/home/CODE_DIR"
      [] path = "~/code"      -> "/home/code"
      [] OTHER                -> path

\* the directories that may exist
CodeDirs ==
    {expandpath(PathOf(CodeSources[k])) : k \in DOMAIN CodeSources}
        \cup {expandpath("~/code")}

\* determine_code_dpath; given[src] is '' for a place that is not given,
\* fs is the set of the directories that exist.  abspath and dirname are
\* not imported, so the default is the NameError branch.
determine_code_dpath(given, fs) ==
    LET candidates == [k \in DOMAIN CodeSources |-> given[CodeSources[k]]]
        valid      == SelectSeq(candidates, LAMBDA c : c # "")
        first      == IF Len(valid) > 0 THEN valid[1] ELSE expandpath("~/code")
        code_dpath == IF first \notin fs THEN expandpath(first) ELSE first
    IN  IF code_dpath \notin fs THEN Raised("Exception")
        ELSE Returned(code_dpath)

DetermineCodeDpath ==
    /\ call.fn \in {"argv", "determine_code_dpath"}
    /\ call' = [fn |-> "determine_code_dpath", given |-> call.given,
                fs |-> call.fs, ret |-> determine_code_dpath(call.given, call.fs)]
    /\ UNCHANGED <<desc, upstream, engineVars, batchVars>>

CodeDpathInit ==
    /\ Parked
    /\ \E on \in SUBSET {CodeSources[k] : k \in DOMAIN CodeSources},
          fs \in SUBSET CodeDirs :
          call = [fn |-> "argv",
                  given |-> [src \in {CodeSources[k] : k \in DOMAIN CodeSources}
                                |-> IF src \in on THEN PathOf(src) ELSE ""],
                  fs |-> fs, ret |-> Returned(None)]

CodeDpathNext == DetermineCodeDpath

SpecCodeDpath == CodeDpathInit /\ [][CodeDpathNext]_vars

-----------------------------------------------------------------------------
(* Repo.__init__ and Repo.set_protocol, with urls and names as sequences of *)
(* atoms.  In the keyword arguments <<>> stands for an argument that is not *)
(* passed; `order` lists the keys of the remotes dict in insertion order.   *)

\* s.split(sep)[-1] for a one-atom separator
AfterLast(s, sep) ==
    LET Q == {q \in 1..Len(s) : s[q] = sep}
    IN  IF Q = {} THEN s ELSE SubSeq(s, Max(Q) + 1, Len(s))

\* s.split(sep)[0] for a one-atom separator
BeforeFirst(s, sep) ==
    LET Q == {q \in 1..Len(s) : s[q] = sep}
    IN  IF Q = {} THEN s ELSE SubSeq(s, 1, Min(Q) - 1)

\* Repo.__init__: the name derived from the url
NameOf(url) == BeforeFirst(AfterLast(url, "/"), ".git")

\* Repo.__init__ once remote and remotes are settled
RepoInitDerive(kwargs, remote, order, remotes) ==
    IF remote \notin DOMAIN remotes THEN Raised("KeyError")
    ELSE Returned([name    |-> IF kwargs.name = <<>> THEN NameOf(remotes[remote])
                               ELSE kwargs.name,
                   remote  |-> remote,
                   order   |-> order,
                   remotes |-> remotes,
                   url     |-> remotes[remote],
                   branch  |-> "master",
                   verbose |-> 3])

\* Repo.__init__ (without dpath)
RepoInit(kwargs) ==
    IF kwargs.remote = <<>>
    THEN IF ~kwargs.has_remotes \/ Len(kwargs.order) # 1
         THEN Raised("ValueError")
         ELSE RepoInitDerive(kwargs, kwargs.order[1], kwargs.order, kwargs.remotes)
    ELSE IF ~kwargs.has_remotes
         THEN RepoInitDerive(kwargs, <<"origin">>, << <<"origin">> >>,
                             [k \in {<<"origin">>} |-> kwargs.remote])
         ELSE RepoInitDerive(kwargs, kwargs.remote, kwargs.order, kwargs.remotes)

\* a set_protocol that rewrites the url of the active remote only
SetProtocolActiveOnly(d, protocol) ==
    IF ~format(d.url, protocol).ok
    THEN [desc |-> d, ret |-> format(d.url, protocol)]
    ELSE [desc |-> [d EXCEPT !.url = format(d.url, protocol).val,
                             !.remotes[d.remote] = format(d.url, protocol).val],
          ret |-> Returned(None)]

\* Repo.set_protocol: self.url is rewritten first; the loop over
\* list(self.remotes.keys()) then rewrites the urls key by key and ends at
\* the first key whose url format() raises on, with the keys before it
\* rewritten and that key and the ones after it as they were
SetProtocolBody(d, protocol) ==
    LET f    == format(d.url, protocol)
        bad  == {i \in DOMAIN d.order :
                    ~format(d.remotes[d.order[i]], protocol).ok}
        stop == IF bad = {} THEN Len(d.order) + 1 ELSE Min(bad)
        d1   == [d EXCEPT
                    !.url = f.val,
                    !.remotes =
                        [k \in DOMAIN d.remotes |->
                            IF \E i \in 1..(stop - 1) : d.order[i] = k
                            THEN format(d.remotes[k], protocol).val
                            ELSE d.remotes[k]]]
    IN  IF ~f.ok THEN [desc |-> d, ret |-> f]
        ELSE IF bad = {} THEN [desc |-> d1, ret |-> Returned(None)]
        ELSE [desc |-> d1, ret |-> Raised("Exception")]

\* the urls descriptors are declared with
DescUrls ==
    {<<"https", ":", "/", "/", "host", "/", "grp", "/", "proj", ".git">>,
     <<"git", "@", "host", ":", "grp", "/", "proj", ".git">>,
     <<"https", ":", "/", "/", "host", ":", "8080", "/", "grp", "/", "proj", ".git">>,
     <<"https", ":", "/", "/", "host", "/", "grp", "/", "proj">>,
     <<"https", ":", "/", "/", "host", "/", "user", "/", "proj", ".git",
       "hub.io", ".git">>}

\* the keys remotes dicts are declared with
DescKeys == {<<"origin">>, <<"mirror">>}

\* the keyword arguments of Repo(...): remote=<url>; remotes=<dict>; both
Kwargs ==
    {[name |-> n, remote |-> u, has_remotes |-> FALSE, order |-> <<>>,
      remotes |-> <<>>] :
        n \in {<<>>, <<"proj">>}, u \in DescUrls \cup {<<>>}}
    \cup
    {[name |-> <<>>, remote |-> r, has_remotes |-> TRUE, order |-> o,
      remotes |-> m] :
        r \in DescKeys \cup {<<>>},
        o \in {<<>>, << <<"origin">> >>, << <<"mirror">>, <<"origin">> >>,
               << <<"origin">>, <<"mirror">> >>},
        m \in UNION {[K -> DescUrls] : K \in SUBSET DescKeys}}

\* repo.set_protocol(protocol)
SetProtocol(protocol) ==
    /\ call.fn \in {"Repo", "set_protocol"}
    /\ \E r \in {SetProtocolBody(desc, protocol)} :
           /\ desc' = r.desc
           /\ call' = [fn |-> "set_protocol", kwargs |-> call.kwargs,
                       protocol |-> protocol, ret |-> r.ret]
    /\ UNCHANGED <<upstream, engineVars, batchVars>>

\* a Repo whose construction returned
DescriptorInit ==
    /\ \E kwargs \in Kwargs :
          /\ DOMAIN kwargs.remotes = {kwargs.order[k] : k \in DOMAIN kwargs.order}
          /\ RepoInit(kwargs).ok
          /\ desc = RepoInit(kwargs).val
          /\ call = [fn |-> "Repo", kwargs |-> kwargs, protocol |-> None,
                     ret |-> Returned(None)]
    /\ AtRest

DescriptorNext == \E protocol \in Protocols : SetProtocol(protocol)

SpecDescriptor == DescriptorInit /\ [][DescriptorNext]_vars

-----------------------------------------------------------------------------
(* Properties of the engine *)

\* the last call has ended
Idle == pc = "idle" /\ nOps > 0

\* the commands the last call has issued so far
CallCmds == SubSeq(logged_cmds, mark + 1, Len(logged_cmds))

LiveEnsure == loc.op = "ensure" /\ ~loc.dry

\* C1: check() = ensure(dry=True) issues no command, from any local state,
\* whether it returns or raises: during and after a dry ensure nothing was
\* appended to the command log, no command executes and the working copy is
\* as the call found it.
C1_CheckIssuesNoCommand ==
    (loc.op = "ensure" /\ loc.dry) =>
        /\ pc = "idle"
        /\ CallCmds = <<>>
        /\ wc = pre

\* a check that returned normally from a working copy on another branch
\* whose active remote has a wrong url
C1_Witness ==
    /\ Idle /\ loc.op = "ensure" /\ loc.dry /\ result = "ok"
    /\ pre.exists
    /\ desc.remote \in pre.reg
    /\ desc.url \notin pre.urls[desc.remote]
    /\ pre.head # desc.branch

\* C2: on an existing working copy ensure and pull raise DirtyRepoError
\* exactly when it is dirty, and then no command was issued and the working
\* copy is unchanged; no call raises DirtyRepoError from a clean state.
C2_DirtyGuard ==
    /\ (loc.op \in {"ensure", "pull"} /\ pre.exists /\ pre.dirty) =>
          /\ pc = "idle"
          /\ result = "DirtyRepoError"
          /\ CallCmds = <<>>
          /\ wc = pre
    /\ (Idle /\ result = "DirtyRepoError") =>
          (loc.op \in {"ensure", "pull"} /\ pre.exists /\ pre.dirty)

\* a live ensure that raised DirtyRepoError
C2_Witness ==
    Idle /\ LiveEnsure /\ result = "DirtyRepoError" /\ pre.exists /\ pre.dirty

\* C3: no fetch, checkout or pull command ever executes against an existing
\* working copy that is dirty.
C3_NoCommandOnDirty ==
    (pc \in {"fetch1", "fetch2", "fetch3", "checkout", "checkout_b", "pull",
             "ufetch", "ucheckout", "ucheckout_b"})
        => ~(wc.exists /\ wc.dirty)

\* C4: a live ensure that directly follows a live ensure that returned
\* normally issues no command.
C4_EnsureIdempotent ==
    (LiveEnsure /\ prev.op = "ensure" /\ ~prev.dry /\ prev.result = "ok") =>
        (pc = "idle" /\ CallCmds = <<>>)

\* C5: when a live ensure returns normally the working copy exists, the
\* active remote is registered with the desired url among its urls, and HEAD
\* is on the local branch named branch or detached at the commit of the tag
\* named branch.
C5_EnsureConverges ==
    (Idle /\ LiveEnsure /\ result = "ok") =>
        /\ wc.exists
        /\ desc.remote \in wc.reg
        /\ desc.url \in wc.urls[desc.remote]
        /\ \/ wc.head = desc.branch
           \/ (wc.tag /\ wc.head = TagCommit)

\* a live ensure that returned normally after it had to add the active
\* remote and to leave another branch
C5_Witness ==
    /\ Idle /\ LiveEnsure /\ result = "ok"
    /\ pre.exists
    /\ desc.remote \notin pre.reg
    /\ pre.head # desc.branch
    /\ wc.head = desc.branch

\* C6: when a live ensure returns normally with HEAD on a local branch, that
\* branch tracks a branch of the active remote.
C6_TrackingConverges ==
    (Idle /\ LiveEnsure /\ result = "ok" /\ ~Detached(wc)) =>
        wc.track[wc.head] = desc.remote

\* s is a prefix of t
IsPrefix(s, t) == Len(s) <= Len(t) /\ SubSeq(t, 1, Len(s)) = s

\* C11: every step of every operation leaves the earlier entries of the
\* command log and of the message log in place and in order, and a command
\* starts executing in the very step that appends it to the command log; so
\* it is in the log whether it then exits zero or nonzero.
C11_AppendOnly ==
    [][/\ IsPrefix(logged_cmds, logged_cmds')
       /\ IsPrefix(logged_lines, logged_lines')
       /\ (pc' # "idle" => Len(logged_cmds') = Len(logged_cmds) + 1)
       /\ (pc' = "idle" => logged_cmds' = logged_cmds)]_vars

\* a status call whose command failed and is in the log, after an earlier
\* call that logged a command too
C11_Witness ==
    /\ Idle /\ loc.op = "status" /\ result # "ok"
    /\ mark > 0
    /\ CallCmds = <<Cmd(<<"git status">>, "dpath")>>

\* the name is dev/ followed by integers separated by dots
IsDevInts(b) ==
    LET at == NameAtoms(b)
    IN  /\ Len(at) >= 2 /\ Len(at) % 2 = 0
        /\ at[1] = "dev/"
        /\ \A k \in 2..Len(at) :
              IF k % 2 = 0 THEN at[k] \in IntAtoms ELSE at[k] = "."

\* the integers of such a name
IntTuple(b) ==
    LET at == NameAtoms(b) IN [k \in 1..(Len(at) \div 2) |-> IntOf(at[2 * k])]

\* s comes before t in the numeric order of tuples
LexLess(s, t) ==
    \/ \E k \in 1..Len(s) :
          /\ k <= Len(t)
          /\ s[k] < t[k]
          /\ \A j \in 1..(k - 1) : s[j] = t[j]
    \/ Len(s) < Len(t) /\ \A j \in 1..Len(s) : s[j] = t[j]

\* C13: upgrade picks a remote branch named dev/<dot-separated integers>
\* whose integer tuple no other such branch exceeds in the numeric order of
\* tuples; any other name is skipped and never picked; with no such branch
\* nothing is picked.
C13_UpgradeSelects ==
    call.fn = "latest" =>
        LET good == {b \in call.names : IsDevInts(b)}
        IN  IF good = {} THEN ~call.ret.ok
            ELSE /\ call.ret.ok
                 /\ call.ret.val \in good
                 /\ \A o \in good :
                       ~LexLess(IntTuple(call.ret.val), IntTuple(o))

\* C12: after a construction that returned and after any sequence of
\* set_protocol calls, returned or raised, remotes is not empty, the active
\* remote is a key of remotes, and url is remotes[remote].
C12_DescriptorInvariant ==
    call.fn \in {"Repo", "set_protocol"} =>
        /\ DOMAIN desc.remotes # {}
        /\ desc.remote \in DOMAIN desc.remotes
        /\ desc.url = desc.remotes[desc.remote]

\* the command is a git clone
IsClone(cmd) == cmd.argv[1] = "git clone --recursive -b"

\* C18: a git clone executes only while the path does not exist and the call
\* is not dry; a dry ensure on an absent path returns with no command; a
\* live ensure on an absent path issues the clone as its first command and
\* does not end, with DirtyRepoError or otherwise, before it; ensure_clone
\* on an existing path issues no command; clone on an existing path raises
\* with no command.
C18_CloneOnlyWhenAbsent ==
    /\ \A k \in DOMAIN CallCmds :
          IsClone(CallCmds[k]) => (k = 1 /\ ~pre.exists /\ ~loc.dry)
    /\ (pc = "clone" => ~wc.exists)
    /\ (loc.op = "ensure" /\ loc.dry /\ ~pre.exists) =>
          (pc = "idle" /\ result = "ok" /\ CallCmds = <<>>)
    /\ (LiveEnsure /\ ~pre.exists) =>
          (CallCmds # <<>> /\ IsClone(CallCmds[1]))
    /\ (loc.op = "ensure_clone" /\ pre.exists) =>
          (pc = "idle" /\ result = "ok" /\ CallCmds = <<>>)
    /\ (loc.op = "clone" /\ pre.exists) =>
          (pc = "idle" /\ result = "ValueError" /\ CallCmds = <<>>)

\* a live ensure on an absent path that cloned, went on and returned
C18_Witness ==
    /\ Idle /\ LiveEnsure /\ ~pre.exists /\ result = "ok"
    /\ IsClone(CallCmds[1])
    /\ Len(CallCmds) > 1

\* HEAD is on the ref the descriptor asks for: the branch, or the tag's
\* commit when HEAD is detached
OnDesiredRef(w) ==
    IF Detached(w) THEN w.tag /\ w.head = TagCommit ELSE w.head = desc.branch

\* the last n commands of the call are these git subcommands, in this order
EndsWith(names) ==
    /\ Len(CallCmds) >= Len(names)
    /\ \A k \in DOMAIN names :
          CallCmds[Len(CallCmds) - Len(names) + k].argv[1] = names[k]

\* C19: in a live ensure `git checkout <branch>` executes only while HEAD is
\* not on the desired ref; `git fetch <remote>` of the fallback executes
\* only right after that checkout failed; `git checkout -b` executes only
\* right after that fetch succeeded; when the fetch or the second checkout
\* fails the call ends with an error and the command log stays as it is.
C19_CheckoutFallback ==
    [][(loc.op = "ensure" /\ ~loc.dry /\ pc # "idle") =>
          /\ (pc = "checkout" =>
                /\ ~OnDesiredRef(wc)
                /\ \A k \in 1..(Len(CallCmds) - 1) :
                      CallCmds[k].argv[1] \notin {"git checkout", "git checkout -b"}
                /\ \/ /\ pc' = "fetch2"
                      /\ wc' = wc
                      /\ Len(logged_cmds') = Len(logged_cmds) + 1
                   \/ /\ pc' # "fetch2"
                      /\ wc' = GitCheckout(wc, desc.branch))
          /\ (pc' = "fetch2" => pc = "checkout")
          /\ (pc' = "checkout_b" => pc = "fetch2")
          /\ (pc = "fetch2" =>
                /\ EndsWith(<<"git checkout", "git fetch">>)
                /\ \/ /\ pc' = "checkout_b"
                      /\ Len(logged_cmds') = Len(logged_cmds) + 1
                   \/ /\ pc' = "idle" /\ result' = "Exception"
                      /\ logged_cmds' = logged_cmds /\ wc' = wc)
          /\ (pc = "checkout_b" =>
                /\ EndsWith(<<"git checkout", "git fetch", "git checkout -b">>)
                /\ \/ wc' = GitCheckoutNew(wc, desc.branch, desc.remote)
                   \/ /\ pc' = "idle" /\ result' = "Exception"
                      /\ logged_cmds' = logged_cmds /\ wc' = wc)]_vars

\* a live ensure whose first checkout failed, whose fetch succeeded and
\* whose second checkout failed
C19_Witness ==
    /\ Idle /\ LiveEnsure /\ result = "Exception"
    /\ EndsWith(<<"git checkout", "git fetch", "git checkout -b">>)

\* C20: `git branch --set-upstream-to` executes only while HEAD is on the
\* local branch named by the descriptor, and never while HEAD is detached
\* at the tag of that name.
C20_SetUpstreamOnBranch ==
    pc = "setup" => (~Detached(wc) /\ wc.head = desc.branch)

\* C21: `git remote add` executes only in a live call; a dry ensure that
\* finds a clean working copy whose active remote is not registered issues no
\* command and does not end with an exception of _registered_remote.
C21_DryRemoteLookup ==
    /\ (pc = "add" => ~loc.dry)
    /\ (loc.op = "ensure" /\ loc.dry /\ pre.exists /\ ~pre.dirty
            /\ ~HasRemote(pre, desc.remote)) =>
          /\ pc = "idle"
          /\ CallCmds = <<>>
          /\ result # "AssertionError"

\* the declared remotes after the i-th that the working copy w lacks
MissingAfter(w, i) ==
    {k \in DOMAIN desc.order : k > i /\ ~HasRemote(w, desc.order[k])}

\* C22: in a live ensure, while `git remote add` executes no fetch, set-url
\* or checkout has been issued; when the add of the active remote fails the
\* call ends with ShellException and no further command; when the add of
\* another declared remote fails the call does not end with that error: the
\* next missing remote gets its add, and with none left ensure goes on.
C22_RemoteAddFailure ==
    [][(loc.op = "ensure" /\ ~loc.dry /\ pc = "add") =>
          /\ \A k \in DOMAIN CallCmds :
                CallCmds[k].argv[1] \in {"git clone --recursive -b", "git remote add"}
          /\ (wc' = wc =>
                IF desc.order[loc.ri] = desc.remote
                THEN /\ pc' = "idle"
                     /\ result' = "ShellException"
                     /\ logged_cmds' = logged_cmds
                ELSE /\ result' # "ShellException"
                     /\ IF MissingAfter(wc, loc.ri) # {}
                        THEN /\ pc' = "add"
                             /\ loc'.ri \in MissingAfter(wc, loc.ri)
                             /\ \A k \in MissingAfter(wc, loc.ri) : loc'.ri <= k
                        ELSE pc' # "add")]_vars

\* a live ensure that returned although the add of a remote other than the
\* active one had failed
C22_Witness ==
    /\ Idle /\ LiveEnsure /\ result = "ok"
    /\ \E k \in DOMAIN CallCmds :
          /\ CallCmds[k].argv[1] = "git remote add"
          /\ CallCmds[k].argv[2] # desc.remote
          /\ ~HasRemote(wc, CallCmds[k].argv[2])

\* C23: upgrade issues a checkout only when some remote branch is named
\* dev/<dot-separated integers> and the active branch is not the selected
\* one; on the selected branch it issues none; with no such remote branch it
\* fails with an error and issues none.
C23_UpgradeCheckoutGuard ==
    call.fn = "latest" =>
        LET good == {b \in call.names : IsDevInts(b)}
        IN  /\ (call.checkout # None =>
                  (good # {} /\ call.active # call.checkout))
            /\ (good = {} => (call.raised # None /\ call.checkout = None))
            /\ ((call.ret.ok /\ call.active = call.ret.val) =>
                  call.checkout = None)

\* C24: in upgrade `git checkout -b <latest> <remote>/<latest>` executes
\* only after `git checkout <latest>` and then a `git fetch` of the active
\* remote were issued, in that order, as the last commands before it.
C24_UpgradeFallback ==
    (loc.op = "upgrade" /\ pc = "ucheckout_b") =>
        EndsWith(<<"git checkout", "git fetch", "git checkout -b">>)

\* the call has issued a command with this git subcommand
Issued(name) == \E k \in DOMAIN CallCmds : CallCmds[k].argv[1] = name

\* an ensure that found HEAD detached
OnDetached == loc.op = "ensure" /\ pre.exists /\ Detached(pre)

\* C25: in an ensure that found HEAD detached the tracking step never runs;
\* a checkout is issued only where a tag named `branch` exists and HEAD's
\* commit is not the tag's, never from the tag's commit; where no tag named
\* `branch` exists the call fails (with TypeError once it reaches the
\* branch step) and issues no checkout and no set-upstream.
C25_DetachedHead ==
    OnDetached =>
        /\ pc \notin {"fetch3", "setup"}
        /\ ~Issued("git branch --set-upstream-to")
        /\ (pc = "checkout" => (wc.tag /\ wc.head # TagCommit))
        /\ (pre.head = TagCommit =>
               (~Issued("git checkout") /\ ~Issued("git checkout -b")))
        /\ (~wc.tag =>
               /\ ~Issued("git checkout") /\ ~Issued("git checkout -b")
               /\ (pc = "idle" =>
                      result \in {"TypeError", "DirtyRepoError",
                                  "AssertionError", "ShellException"}))

\* a live ensure that found HEAD detached off the tag's commit, checked the
\* tag out and returned
C25_Witness ==
    /\ Idle /\ LiveEnsure /\ result = "ok"
    /\ pre.exists /\ Detached(pre) /\ pre.head # TagCommit
    /\ Issued("git checkout")
    /\ wc.head = TagCommit

\* the url is written in the protocol
InProtocol(url, protocol) ==
    IF protocol = "ssh" THEN IsPrefix(<<"git", "@">>, url)
    ELSE IsPrefix(<<protocol, ":", "/", "/">>, url)

\* C26: set_protocol leaves name, remote, branch, verbosity and the names
\* and order of the remotes as they were, whether it returns or raises; when
\* it returns, url and the url of every declared remote are in the requested
\* protocol.
C26_SetProtocolFrame ==
    [][call'.fn = "set_protocol" =>
          /\ desc'.name = desc.name
          /\ desc'.remote = desc.remote
          /\ desc'.branch = desc.branch
          /\ desc'.verbose = desc.verbose
          /\ desc'.order = desc.order
          /\ DOMAIN desc'.remotes = DOMAIN desc.remotes
          /\ (call'.ret.ok =>
                /\ InProtocol(desc'.url, call'.protocol)
                /\ \A k \in DOMAIN desc'.remotes :
                      InProtocol(desc'.remotes[k], call'.protocol))]_vars

\* a set_protocol('ssh') that returned on a Repo declared with two https
\* remotes
C26_Witness ==
    /\ call.fn = "set_protocol" /\ call.ret.ok /\ call.protocol = "ssh"
    /\ Len(desc.order) = 2
    /\ \A k \in DOMAIN call.kwargs.remotes :
          /\ InProtocol(call.kwargs.remotes[k], "https")
          /\ desc.remotes[k] # call.kwargs.remotes[k]

\* the lines by which a dry ensure reports what it skipped
NeedLines ==
    {"NEED TO CLONE", "dry run, not fetching", "Branch name not found. Dry run",
     "Dry run, not updating remote url", "Dry run, not setting branch",
     "Would attempt to set upstream"}

\* the needs among the lines check() logs on the working copy w
CheckNeeds(w) ==
    {CheckOf(w).lines[k][2] : k \in DOMAIN CheckOf(w).lines} \cap NeedLines

\* a live ensure called right after a check() that returned normally; the
\* check changed nothing, so both found the working copy pre
AfterCheck ==
    LiveEnsure /\ prev.op = "ensure" /\ prev.dry /\ prev.result = "ok"

\* each need of the set has its command among those of the call
NeedsIssued(needs) ==
    /\ "NEED TO CLONE" \in needs => Issued("git clone --recursive -b")
    /\ "dry run, not fetching" \in needs => Issued("git fetch")
    /\ "Branch name not found. Dry run" \in needs => Issued("git fetch")
    /\ "Dry run, not updating remote url" \in needs =>
          Issued("git remote set-url")
    /\ "Dry run, not setting branch" \in needs => Issued("git checkout")
    /\ "Would attempt to set upstream" \in needs =>
          Issued("git branch --set-upstream-to")

Yielded(i) == CHOOSE k \in DOMAIN processed : processed[k].id = i

\* repo i ended as the call of the sequential loop ends on its working copy
\* in this environment: the same outcome, the same final working copy and,
\* when it did not raise, the same logged commands in the Repo object apply
\* holds
AsSequential(i, seq) ==
    /\ tasks[i].c.result = seq.result
    /\ tasks[i].c.wc = seq.wc
    /\ seq.result = "ok" => processed[Yielded(i)].cmds = seq.cmds

\* C28: when apply has returned (no error other than DirtyRepoError), in
\* either mode and after any interleaving and completion order of the
\* workers, every repo ended as the sequential call ends on its working copy
\* in the same environment: the outcome of a repo does not depend on
\* num_workers.
C28_ModesAgree ==
    (call.fn = "exits" /\ apply = "returned") =>
        \A i \in Repos :
            \E seq \in {SeqOutcome(call.trees[i], call.fails[i])} :
                AsSequential(i, seq)

\* a pool of two workers returned from ensure: both repos issued commands
\* and returned, in working copies that differ, and the second repo was
\* collected first
C28_Witness ==
    /\ call.fn = "exits" /\ apply = "returned" /\ num_workers = 2
    /\ funcname = "ensure"
    /\ \A i \in Repos : tasks[i].c.result = "ok" /\ tasks[i].c.cmds # <<>>
    /\ call.trees[1] # call.trees[2]
    /\ tasks[1].c.wc # call.trees[1]
    /\ processed[1].id = 2

\* C14: when format(p) returns for a url that parses, the string it returns
\* parses again with the host and the path of the url, formatting that
\* string with p gives the very same string, and the GitURL object is as
\* it was made.
C14_FormatRoundTrip ==
    (call.fn = "format" /\ call.ret.ok) =>
        LET u == parts(call.self._url)
            v == parts(call.ret.val)
        IN  /\ v.syntax # ""
            /\ v.host = u.host
            /\ v.path = u.path
            /\ format(call.ret.val, call.protocol) = call.ret
            /\ call.self = GitURLInit(call.self._url)

\* C15: format('ssh') returns git@host:path; format with a transport
\* protocol returns protocol://host[:port]/path, without the user and with
\* the port of the url when it has one.
C15_FormatShape ==
    (call.fn = "format" /\ call.ret.ok) =>
        LET u == parts(call.self._url)
        IN  call.ret.val =
                IF call.protocol = "ssh"
                THEN <<"git", "@">> \o u.host \o <<":">> \o u.path
                ELSE <<call.protocol, ":", "/", "/">> \o u.host \o u.port
                         \o <<"/">> \o u.path

\* the first place that is given, in the order --codedpath, --codedir,
\* CODE_DPATH, CODE_DIR; '' when none is
FirstGiven(given) ==
    LET order == <<"--codedpath", "--codedir", "CODE_DPATH", "CODE_DIR">>
        on    == {k \in DOMAIN order : given[order[k]] # ""}
    IN  IF on = {} THEN ""
        ELSE given[order[CHOOSE k \in on : \A j \in on : k <= j]]

\* C17: what determine_code_dpath returns is the value of the first given
\* place in the order --codedpath, --codedir, CODE_DPATH, CODE_DIR (as given
\* or with the home directory expanded), and the default only when none of
\* the four is given.
C17_CodeDpathPriority ==
    (call.fn = "determine_code_dpath" /\ call.ret.ok) =>
        LET want == FirstGiven(call.given)
        IN  IF want = "" THEN call.ret.val = expandpath("~/code")
            ELSE call.ret.val \in {want, expandpath(want)}

\* s without a final ".git"
StripGit(s) ==
    IF Len(s) > 0 /\ s[Len(s)] = ".git" THEN SubSeq(s, 1, Len(s) - 1) ELSE s

\* C16: a descriptor constructed without a name is named after the last
\* /-component of its url with the .git suffix stripped; constructed from a
\* single remote url and no map, its remotes are {origin: url} and its
\* active remote is origin.
C16_NameDerivation ==
    (call.fn = "Repo" /\ call.kwargs.name = <<>>) =>
        /\ desc.name = StripGit(AfterLast(desc.url, "/"))
        /\ (call.kwargs.remote # <<>> /\ ~call.kwargs.has_remotes) =>
              /\ desc.remote = <<"origin">>
              /\ DOMAIN desc.remotes = {<<"origin">>}
              /\ desc.remotes[<<"origin">>] = call.kwargs.remote
              /\ desc.url = call.kwargs.remote

-----------------------------------------------------------------------------
(* Properties of apply *)

\* the method call on repo i has ended
TaskEnded(i) == tasks[i].st \in {"done", "collected"}

\* the method call on repo i ended with an exception apply does not catch
TaskBroke(i) ==
    TaskEnded(i) /\ tasks[i].c.result \notin {"ok", "DirtyRepoError"}

\* C7: when DirtyRepoError is the only failure, apply does not raise; when it
\* returns, every repo is in processed_repos exactly once and the method has
\* run to the end on every repo, raising only on the dirty ones; and the
\* sequential loop returns as soon as its last call has ended.
C7_DirtyTolerated ==
    /\ apply \in {"unwinding", "raised"} => \E i \in Repos : TaskBroke(i)
    /\ apply = "returned" =>
          /\ Len(processed) = NumRepos
          /\ \A i \in Repos :
                Cardinality({k \in DOMAIN processed : processed[k].id = i}) = 1
          /\ \A i \in Repos :
                /\ TaskEnded(i)
                /\ IF tasks[i].c.wc.exists /\ tasks[i].c.wc.dirty
                   THEN tasks[i].c.result = "DirtyRepoError"
                   ELSE tasks[i].c.result = "ok"
    /\ (num_workers = 0 /\ \A i \in Repos : TaskEnded(i) /\ ~TaskBroke(i)) =>
          apply = "returned"

\* a pool run that returned with a dirty repo declared before a clean repo
\* on which commands ran
C7_Witness ==
    /\ num_workers > 0 /\ apply = "returned"
    /\ \E i, j \in Repos :
          /\ i < j
          /\ tasks[i].c.result = "DirtyRepoError"
          /\ tasks[j].c.result = "ok" /\ tasks[j].c.cmds # <<>>

\* C8: in sequential mode an exception other than DirtyRepoError in repo i
\* leaves apply at once and no later repo is operated on; in pool mode
\* apply raises only after every other task has run to its end.
C8_FailurePolicy ==
    /\ num_workers = 0 =>
          \A i \in Repos : TaskBroke(i) =>
              /\ apply = "raised"
              /\ \A j \in Repos : j > i =>
                    /\ tasks[j].st = "pending"
                    /\ \A k \in DOMAIN issued : issued[k] # j
    /\ (num_workers > 0 /\ apply = "raised") =>
          \A j \in Repos : TaskEnded(j)

\* a pool run that raised although a task that began after the failure ran
\* its commands and returned
C8_Witness ==
    /\ num_workers = 1 /\ apply = "raised"
    /\ \E i, j \in Repos :
          /\ i < j
          /\ TaskBroke(i)
          /\ tasks[j].c.result = "ok" /\ tasks[j].c.cmds # <<>>

\* C9: when apply has ended, returned or raised, the commands attempted on
\* each repo are printed as that repo's group, in order of attempt, and
\* the messages logged for it are retained with the processed repo.
C9_AuditTrailComplete ==
    apply \in {"returned", "raised"} =>
        \A i \in Repos :
            /\ tasks[i].c.cmds # <<>> =>
                  \E k \in DOMAIN printed :
                      /\ printed[k].kind = "cmds"
                      /\ printed[k].repo = i
                      /\ printed[k].body = tasks[i].c.cmds
            /\ tasks[i].c.lines # <<>> =>
                  \E k \in DOMAIN processed :
                      /\ processed[k].id = i
                      /\ processed[k].lines = tasks[i].c.lines

\* C10: with num_workers = 0 the commands are issued repo by repo in
\* declaration order, at most one method call runs at a time, and
\* processed_repos is in declaration order.
C10_SequentialOrder ==
    num_workers = 0 =>
        /\ \A k \in 1..(Len(issued) - 1) : issued[k] <= issued[k + 1]
        /\ \A k \in DOMAIN processed : processed[k].id = k
        /\ Cardinality({i \in Repos : tasks[i].st = "running"}) <= 1

\* a sequential run that returned after issuing commands for every repo
C10_Witness ==
    /\ num_workers = 0 /\ apply = "returned"
    /\ \A i \in Repos : \E k \in DOMAIN issued : issued[k] = i

====
